---- MODULE Spec2Model ----
(***************************************************************************)
(* Phonetics Common Feature Finder (commonFeatureFinder.c).                *)
(*                                                                         *)
(* main reads a count, that many phoneme codes into int intArray[7], and a *)
(* consonant/vowel selector, then calls the reducers of the selected class *)
(* one after the other.  Every reducer walks intArray[0..num-1], looks the *)
(* code up in its if-chain table and folds the features into a running     *)
(* "previous" value; it prints one line when the loop runs to its end and  *)
(* returns silently otherwise.                                             *)
(*                                                                         *)
(* C strings are modelled as TLA+ strings, "" being the empty string that  *)
(* the code uses as the "no secondary feature" sentinel.  C arrays are     *)
(* 0-based, TLA+ sequences 1-based: intArray[i] of the code is             *)
(* intArray[i + 1] here.                                                   *)
(***************************************************************************)
EXTENDS Integers, Sequences, FiniteSets

\* ------------------------------------------------------------------------
\* Bounds of the exploration
\* ------------------------------------------------------------------------
\* largest count entered; larger than the array so that the overflow happens
MaxNum == 8
\* sequences up to this length are drawn from the full code alphabet
MaxFull == 2
\* sequences up to this length are drawn from MidCodes, longer ones from
\* LongCodes
MaxMid == 3
\* codes entered are 0..MaxCode: below, inside and above both class ranges
MaxCode == 26
\* selectors entered are 0..MaxSelector
MaxSelector == 2

\* int intArray[7]
ArrayLen == 7

\* codes entered for sequences longer than MaxFull: at least one code of
\* every row of every table, and codes outside both class ranges
MidCodes == {0, 1, 3, 4, 5, 6, 8, 9, 10, 13, 17, 19, 20, 23, 24, 26}

\* codes entered for sequences longer than MaxMid
LongCodes == {0, 1, 3}

CodesFor(n) ==
  IF n <= MaxFull THEN 0..MaxCode
  ELSE IF n <= MaxMid THEN MidCodes
  ELSE LongCodes

\* ------------------------------------------------------------------------
\* Feature tables: the if / else-if chains at the head of each loop body.
\* A table yields [p |-> primary, s |-> secondary], or [p |-> "", s |-> ""]
\* with ok = FALSE when the chain falls into its "Out of range" else.
\* ------------------------------------------------------------------------
Feature(p, s) == [ok |-> TRUE, p |-> p, s |-> s]
NoEntry == [ok |-> FALSE, p |-> "", s |-> ""]

\* w entered with place and subPlace exchanged
conPlaceTableSwapped(c) ==
  IF c \in {1, 2, 3} THEN Feature("Labial", "Bilabial")
  ELSE IF c \in {4, 5} THEN Feature("Labial", "Labiodental")
  ELSE IF c \in {6, 7} THEN Feature("Dental", "")
  ELSE IF c \in {8, 9, 10, 11, 12, 13, 14} THEN Feature("Alveolar", "")
  ELSE IF c \in {15, 16, 17, 18} THEN Feature("Alveopalatal", "")
  ELSE IF c = 19 THEN Feature("Palatal", "")
  ELSE IF c \in {20, 21, 22} THEN Feature("Velar", "")
  ELSE IF c = 23 THEN Feature("Velar", "Labial")
  ELSE IF c \in {24, 25} THEN Feature("Glottal", "")
  ELSE NoEntry

conPlaceTable(c) ==
  IF c \in {1, 2, 3} THEN Feature("Labial", "Bilabial")
  ELSE IF c \in {4, 5} THEN Feature("Labial", "Labiodental")
  ELSE IF c \in {6, 7} THEN Feature("Dental", "")
  ELSE IF c \in {8, 9, 10, 11, 12, 13, 14} THEN Feature("Alveolar", "")
  ELSE IF c \in {15, 16, 17, 18} THEN Feature("Alveopalatal", "")
  ELSE IF c = 19 THEN Feature("Palatal", "")
  ELSE IF c \in {20, 21, 22} THEN Feature("Velar", "")
  ELSE IF c = 23 THEN Feature("Labial", "Velar")
  ELSE IF c \in {24, 25} THEN Feature("Glottal", "")
  ELSE NoEntry

conMannerTable(c) ==
  IF c \in {1, 2, 8, 9, 20, 21, 24} THEN Feature("Stop", "")
  ELSE IF c \in {3, 10, 22} THEN Feature("Nasal", "Stop")
  ELSE IF c \in {4, 5, 6, 7, 11, 12, 15, 16, 25} THEN Feature("Fricative", "")
  ELSE IF c \in {17, 18} THEN Feature("Affricate", "")
  ELSE IF c \in {13, 14} THEN Feature("Liquid", "")
  ELSE IF c \in {19, 23} THEN Feature("Glide", "")
  ELSE NoEntry

\* w (23) left out of the voiced codes
conVoicingTableGap(c) ==
  IF c \in {1, 4, 6, 8, 11, 15, 17, 20, 24, 25} THEN Feature("Voiceless", "")
  ELSE IF c \in {2, 3, 5, 7, 9, 10, 12, 13, 14, 16, 18, 19, 21, 22}
       THEN Feature("Voiced", "")
  ELSE NoEntry

conVoicingTable(c) ==
  IF c \in {1, 4, 6, 8, 11, 15, 17, 20, 24, 25} THEN Feature("Voiceless", "")
  ELSE IF c \in {2, 3, 5, 7, 9, 10, 12, 13, 14, 16, 18, 19, 21, 22, 23}
       THEN Feature("Voiced", "")
  ELSE NoEntry

\* the last test written as a range check without its upper end
vowHeightTableOpen(c) ==
  IF c \in {1, 2, 3, 4} THEN Feature("High", "")
  ELSE IF c \in {5, 6, 7, 8, 9, 10, 11} THEN Feature("Mid", "")
  ELSE IF c >= 12 THEN Feature("Low", "")
  ELSE NoEntry

vowHeightTable(c) ==
  IF c \in {1, 2, 3, 4} THEN Feature("High", "")
  ELSE IF c \in {5, 6, 7, 8, 9, 10, 11} THEN Feature("Mid", "")
  ELSE IF c \in {12, 13, 14, 15} THEN Feature("Low", "")
  ELSE NoEntry

vowBacknessTable(c) ==
  IF c \in {1, 2, 5, 6, 12} THEN Feature("Front", "")
  ELSE IF c \in {7, 8, 13, 14} THEN Feature("Central", "")
  ELSE IF c \in {3, 4, 9, 10, 11, 15} THEN Feature("Back", "")
  ELSE NoEntry

vowTensenessTable(c) ==
  IF c \in {1, 3, 5, 9, 10, 13, 14, 15} THEN Feature("Tensed", "")
  ELSE IF c \in {2, 4, 6, 7, 8, 11, 12} THEN Feature("Laxed", "")
  ELSE NoEntry

vowRoundednessTable(c) ==
  IF c \in {3, 4, 9, 10, 11} THEN Feature("Rounded", "")
  ELSE IF c \in {1, 2, 5, 6, 7, 8, 12, 13, 14, 15} THEN Feature("Unrounded", "")
  ELSE NoEntry

vowDiphthongTable(c) ==
  IF c \in {1, 2, 3, 4, 6, 7, 8, 11, 12, 15} THEN Feature("Simple Vowel", "")
  ELSE IF c \in {10, 13, 14} THEN Feature("Diphthong", "Major Diphthong")
  ELSE IF c \in {5, 9} THEN Feature("Diphthong", "Minor Diphthong")
  ELSE NoEntry

\* the eight reducers, in the order main calls them
ConsonantFns == <<"conPlaceArticulation", "conMannerArticulation", "conVoicing">>
VowelFns == <<"vowHeight", "vowBackness", "vowTenseness", "vowRoundedness",
              "vowDiphthong">>
TwoLevelFns == {"conPlaceArticulation", "conMannerArticulation", "vowDiphthong"}
AllFns == {ConsonantFns[k] : k \in 1..3} \cup {VowelFns[k] : k \in 1..5}

Table(fn, c) ==
  CASE fn = "conPlaceArticulation" -> conPlaceTable(c)
    [] fn = "conMannerArticulation" -> conMannerTable(c)
    [] fn = "conVoicing" -> conVoicingTable(c)
    [] fn = "vowHeight" -> vowHeightTable(c)
    [] fn = "vowBackness" -> vowBacknessTable(c)
    [] fn = "vowTenseness" -> vowTensenessTable(c)
    [] fn = "vowRoundedness" -> vowRoundednessTable(c)
    [] fn = "vowDiphthong" -> vowDiphthongTable(c)


\* ------------------------------------------------------------------------
\* The comparison of the looked-up feature with the running one.
\* The result is the new running value, or ok = FALSE for a silent return.
\* ------------------------------------------------------------------------
Mismatch == [ok |-> FALSE, p |-> "", s |-> ""]

\* the last branch (subPlace against previousPlace) left out
twoLevelCompareNoFourth(prev, cur) ==
  IF cur.p = prev.p THEN Feature(cur.p, "")
  ELSE IF prev.s # "" /\ cur.s # ""
       THEN (IF cur.s = prev.s THEN Feature(cur.s, "") ELSE Mismatch)
  ELSE IF prev.s # ""
       THEN (IF cur.p = prev.s THEN Feature(cur.p, "") ELSE Mismatch)
  ELSE Mismatch

\* the secondaries compared before the primaries
twoLevelCompareSubFirst(prev, cur) ==
  IF prev.s # "" /\ cur.s # ""
  THEN (IF cur.s = prev.s THEN Feature(cur.s, "")
        ELSE IF cur.p = prev.p THEN Feature(cur.p, "") ELSE Mismatch)
  ELSE IF cur.p = prev.p THEN Feature(cur.p, "")
  ELSE IF prev.s # ""
       THEN (IF cur.p = prev.s THEN Feature(cur.p, "") ELSE Mismatch)
  ELSE IF cur.s # ""
       THEN (IF cur.s = prev.p THEN Feature(cur.s, "") ELSE Mismatch)
  ELSE Mismatch

\* the third branch without its strcmp
twoLevelCompareNoTest(prev, cur) ==
  IF cur.p = prev.p THEN Feature(cur.p, "")
  ELSE IF prev.s # "" /\ cur.s # ""
       THEN (IF cur.s = prev.s THEN Feature(cur.s, "") ELSE Mismatch)
  ELSE IF prev.s # ""
       THEN Feature(cur.p, "")
  ELSE IF cur.s # ""
       THEN (IF cur.s = prev.p THEN Feature(cur.s, "") ELSE Mismatch)
  ELSE Mismatch

\* conPlaceArticulation 141-179; conMannerArticulation 237-275 and
\* vowDiphthong 546-584 are the same text over their own variables
twoLevelCompare(prev, cur) ==
  IF cur.p = prev.p THEN Feature(cur.p, "")
  ELSE IF prev.s # "" /\ cur.s # ""
       THEN (IF cur.s = prev.s THEN Feature(cur.s, "") ELSE Mismatch)
  ELSE IF prev.s # ""
       THEN (IF cur.p = prev.s THEN Feature(cur.p, "") ELSE Mismatch)
  ELSE IF cur.s # ""
       THEN (IF cur.s = prev.p THEN Feature(cur.s, "") ELSE Mismatch)
  ELSE Mismatch

\* conVoicing 315-321; vowHeight, vowBackness, vowTenseness and
\* vowRoundedness are the same text over their own variables.  These
\* reducers have no secondary variable at all.
oneLevelCompare(prev, cur) ==
  IF cur.p = prev.p THEN Feature(cur.p, "") ELSE Mismatch

Compare(fn, prev, cur) ==
  IF fn \in TwoLevelFns THEN twoLevelCompare(prev, cur)
  ELSE oneLevelCompare(prev, cur)

\* ------------------------------------------------------------------------
\* The while loop of a reducer, from index i with running value prev.
\* exit: "printed" when the loop ends and the printf runs, "outOfRange" for
\* the return in the table's else, "noMatch" for a return in the comparison.
\* reads is the number of array cells the call has read.
\* ------------------------------------------------------------------------
Outcome(exit, label, reads) == [exit |-> exit, label |-> label, reads |-> reads]

RECURSIVE Loop(_, _, _, _, _)
Loop(fn, intArray, num, i, prev) ==
  IF ~(i < num) THEN Outcome("printed", prev.p, i)
  ELSE LET cur == Table(fn, intArray[i + 1]) IN
       IF ~cur.ok THEN Outcome("outOfRange", "", i + 1)
       ELSE IF i = 0 THEN Loop(fn, intArray, num, i + 1, Feature(cur.p, cur.s))
       ELSE LET nxt == Compare(fn, prev, cur) IN
            IF ~nxt.ok THEN Outcome("noMatch", "", i + 1)
            ELSE Loop(fn, intArray, num, i + 1, nxt)

\* a reducer that returns at once when there is nothing to compare
ReduceGuarded(fn, intArray, num) ==
  IF num <= 0 THEN Outcome("noMatch", "", 0)
  ELSE Loop(fn, intArray, num, 0, Feature("", ""))

\* a call of reducer fn: previous... = "" and i = 0 on entry
Reduce(fn, intArray, num) == Loop(fn, intArray, num, 0, Feature("", ""))

conPlaceArticulation(intArray, num) == Reduce("conPlaceArticulation", intArray, num)
conMannerArticulation(intArray, num) == Reduce("conMannerArticulation", intArray, num)
conVoicing(intArray, num) == Reduce("conVoicing", intArray, num)
vowHeight(intArray, num) == Reduce("vowHeight", intArray, num)
vowBackness(intArray, num) == Reduce("vowBackness", intArray, num)
vowTenseness(intArray, num) == Reduce("vowTenseness", intArray, num)
vowRoundedness(intArray, num) == Reduce("vowRoundedness", intArray, num)
vowDiphthong(intArray, num) == Reduce("vowDiphthong", intArray, num)

\* the text each reducer's printf puts in front of the label
Prefix(fn) ==
  CASE fn = "conPlaceArticulation" -> "The common place of articulation is: "
    [] fn = "conMannerArticulation" -> "The common manner of articulation is: "
    [] fn = "conVoicing" -> "The common voicing is: "
    [] fn = "vowHeight" -> "The common height of the tongue is: "
    [] fn = "vowBackness" -> "The common backness of the tongue is: "
    [] fn = "vowTenseness" -> "The common tenseness of the vocal tract is: "
    [] fn = "vowRoundedness" -> "The common roundedness of the lips is: "
    [] fn = "vowDiphthong" -> "The common simple/complex vowel is: "

\* ------------------------------------------------------------------------
\* State of main
\* ------------------------------------------------------------------------
VARIABLES
  pc,             \* position in main
  num,            \* int num
  intArray,       \* the cells of intArray written so far, in index order
  i,              \* the counter of the input loop
  consonantVowel, \* int consonantVowel; -1 before it is read
  calls,          \* the reducer calls made so far: [fn, exit, label]
  stdout,         \* the result lines printed so far: <<prefix, label>>
  maxIndex        \* the highest index of intArray accessed so far, -1 if none

vars == <<pc, num, intArray, i, consonantVowel, calls, stdout, maxIndex>>

Max(a, b) == IF a >= b THEN a ELSE b

Init ==
  /\ pc = "readNum"
  /\ num = 0
  /\ intArray = <<>>
  /\ i = 0
  /\ consonantVowel = -1
  /\ calls = <<>>
  /\ stdout = <<>>
  /\ maxIndex = -1

\* scanf("%d", &num)
ReadNum ==
  /\ pc = "readNum"
  /\ \E n \in 0..MaxNum : num' = n
  /\ i' = 0
  /\ pc' = "readCodes"
  /\ UNCHANGED <<intArray, consonantVowel, calls, stdout, maxIndex>>

\* one turn of the input loop whose store lands inside the array
ReadCode ==
  /\ pc = "readCodes"
  /\ i < num
  /\ i < ArrayLen
  /\ \E v \in CodesFor(num) : intArray' = Append(intArray, v)
  /\ i' = i + 1
  /\ maxIndex' = Max(maxIndex, i)
  /\ UNCHANGED <<pc, num, consonantVowel, calls, stdout>>

\* one turn of the input loop with i >= 7: scanf stores past the end of
\* intArray, which is undefined.  The store may land in unused stack memory
\* next to the array (and is read back by the reducers), may overwrite num,
\* or may end the process.
ReadCodeOverflow ==
  /\ pc = "readCodes"
  /\ i < num
  /\ i >= ArrayLen
  /\ maxIndex' = Max(maxIndex, i)
  /\ \E v \in CodesFor(num) :
       \/ /\ intArray' = Append(intArray, v)
          /\ i' = i + 1
          /\ UNCHANGED <<pc, num>>
       \/ /\ num' = v
          /\ i' = i + 1
          /\ UNCHANGED <<pc, intArray>>
       \/ /\ pc' = "crashed"
          /\ UNCHANGED <<num, intArray, i>>
  /\ UNCHANGED <<consonantVowel, calls, stdout>>

\* the vowel branch taken as a plain else
ReadSelectorElse ==
  /\ pc = "readCodes"
  /\ ~(i < num)
  /\ \E s \in 0..MaxSelector :
       /\ consonantVowel' = s
       /\ pc' = IF s = 0 THEN ConsonantFns[1] ELSE VowelFns[1]
  /\ UNCHANGED <<num, intArray, i, calls, stdout, maxIndex>>

\* the input loop ends; scanf("%d", &consonantVowel) and the if chain
ReadSelector ==
  /\ pc = "readCodes"
  /\ ~(i < num)
  /\ \E s \in 0..MaxSelector :
       /\ consonantVowel' = s
       /\ pc' = IF s = 0 THEN ConsonantFns[1]
                ELSE IF s = 1 THEN VowelFns[1]
                ELSE "invalid"
  /\ UNCHANGED <<num, intArray, i, calls, stdout, maxIndex>>

\* main without its call of conVoicing
AfterNoVoicing(fn) ==
  CASE fn = "conPlaceArticulation" -> "conMannerArticulation"
    [] fn = "conMannerArticulation" -> "printEnd"
    [] fn = "conVoicing" -> "printEnd"
    [] fn = "vowHeight" -> "vowBackness"
    [] fn = "vowBackness" -> "vowTenseness"
    [] fn = "vowTenseness" -> "vowRoundedness"
    [] fn = "vowRoundedness" -> "vowDiphthong"
    [] fn = "vowDiphthong" -> "printEnd"

\* where main goes after the call of fn
After(fn) ==
  CASE fn = "conPlaceArticulation" -> "conMannerArticulation"
    [] fn = "conMannerArticulation" -> "conVoicing"
    [] fn = "conVoicing" -> "printEnd"
    [] fn = "vowHeight" -> "vowBackness"
    [] fn = "vowBackness" -> "vowTenseness"
    [] fn = "vowTenseness" -> "vowRoundedness"
    [] fn = "vowRoundedness" -> "vowDiphthong"
    [] fn = "vowDiphthong" -> "printEnd"

\* main calls reducer fn, whose outcome is r
Call(fn, r) ==
  /\ pc = fn
  /\ calls' = Append(calls, [fn |-> fn, exit |-> r.exit, label |-> r.label])
  /\ stdout' = IF r.exit = "printed"
               THEN Append(stdout, <<Prefix(fn), r.label>>)
               ELSE stdout
  /\ maxIndex' = Max(maxIndex, r.reads - 1)
  /\ pc' = After(fn)
  /\ UNCHANGED <<num, intArray, i, consonantVowel>>

CallConPlaceArticulation ==
  Call("conPlaceArticulation", conPlaceArticulation(intArray, num))
CallConMannerArticulation ==
  Call("conMannerArticulation", conMannerArticulation(intArray, num))
CallConVoicing ==
  Call("conVoicing", conVoicing(intArray, num))
CallVowHeight ==
  Call("vowHeight", vowHeight(intArray, num))
CallVowBackness ==
  Call("vowBackness", vowBackness(intArray, num))
CallVowTenseness ==
  Call("vowTenseness", vowTenseness(intArray, num))
CallVowRoundedness ==
  Call("vowRoundedness", vowRoundedness(intArray, num))
CallVowDiphthong ==
  Call("vowDiphthong", vowDiphthong(intArray, num))

\* printf("Invalid Input\n"); return 0;
InvalidInput ==
  /\ pc = "invalid"
  /\ stdout' = Append(stdout, <<"Invalid Input", "">>)
  /\ pc' = "done"
  /\ UNCHANGED <<num, intArray, i, consonantVowel, calls, maxIndex>>

\* printf("========END========\n"); return 0;
PrintEnd ==
  /\ pc = "printEnd"
  /\ stdout' = Append(stdout, <<"========END========", "">>)
  /\ pc' = "done"
  /\ UNCHANGED <<num, intArray, i, consonantVowel, calls, maxIndex>>

Next ==
  \/ ReadNum
  \/ ReadCode
  \/ ReadCodeOverflow
  \/ ReadSelector
  \/ CallConPlaceArticulation
  \/ CallConMannerArticulation
  \/ CallConVoicing
  \/ CallVowHeight
  \/ CallVowBackness
  \/ CallVowTenseness
  \/ CallVowRoundedness
  \/ CallVowDiphthong
  \/ InvalidInput
  \/ PrintEnd

Spec == Init /\ [][Next]_vars

\* ------------------------------------------------------------------------
\* Vocabulary of the properties
\* ------------------------------------------------------------------------
\* the sequence a reducer is handed: intArray[0..num-1]
Input == SubSeq(intArray, 1, num)

\* the valid codes of the class fn belongs to
ClassRange(fn) ==
  IF fn \in {"conPlaceArticulation", "conMannerArticulation", "conVoicing"}
  THEN 1..25 ELSE 1..15

AllValid(fn, seq) == \A j \in 1..Len(seq) : seq[j] \in ClassRange(fn)

Resolved(r) == r.exit = "printed"

\* two outcomes a user of the program cannot tell apart
SameOutcome(r1, r2) ==
  /\ Resolved(r1) <=> Resolved(r2)
  /\ Resolved(r1) => r1.label = r2.label

\* the calls main has completed on a non-empty input
DoneCalls == IF num >= 1 THEN DOMAIN calls ELSE {}

\* all orderings of the elements of seq
RemoveAt(seq, k) == SubSeq(seq, 1, k - 1) \o SubSeq(seq, k + 1, Len(seq))

RECURSIVE Permutations(_)
Permutations(seq) ==
  IF seq = <<>> THEN {<<>>}
  ELSE UNION {{<<seq[k]>> \o t : t \in Permutations(RemoveAt(seq, k))} :
              k \in 1..Len(seq)}

PairwiseResolve(fn, seq) ==
  \A x, y \in 1..Len(seq) :
    x # y => Resolved(Reduce(fn, <<seq[x], seq[y]>>, 2))

\* ------------------------------------------------------------------------
\* C1: for a two-level reducer and a sequence of valid codes whose pairs all
\* resolve, every permutation of the sequence gives the outcome the call
\* gave: the same label, or failure for all orders.
\* ------------------------------------------------------------------------
C1_OrderIndependent ==
  \A k \in DoneCalls :
    (/\ calls[k].fn \in TwoLevelFns
     /\ AllValid(calls[k].fn, Input)
     /\ PairwiseResolve(calls[k].fn, Input))
    => \A t \in Permutations(Input) :
         SameOutcome(Reduce(calls[k].fn, t, num), calls[k])

\* ------------------------------------------------------------------------
\* C2: on two valid codes a reducer resolves exactly when the codes agree at
\* some comparable level, the label is the shared one (the common primary
\* when the primaries are equal), and the swapped pair gives the same.
\* ------------------------------------------------------------------------
Agree(a, b) ==
  \/ a.p = b.p
  \/ a.s # "" /\ b.s # "" /\ a.s = b.s
  \/ a.s # "" /\ a.s = b.p
  \/ b.s # "" /\ b.s = a.p

SharedLabel(a, b) ==
  IF a.p = b.p THEN a.p
  ELSE IF a.s # "" /\ b.s # "" /\ a.s = b.s THEN a.s
  ELSE IF a.s # "" /\ a.s = b.p THEN b.p
  ELSE a.p

C2_PairAgreement ==
  \A k \in DoneCalls :
    (num = 2 /\ AllValid(calls[k].fn, Input))
    => LET fn == calls[k].fn
           a == Table(fn, intArray[1])
           b == Table(fn, intArray[2])
       IN /\ Resolved(calls[k]) <=> Agree(a, b)
          /\ Resolved(calls[k]) => calls[k].label = SharedLabel(a, b)
          /\ SameOutcome(Reduce(fn, <<intArray[2], intArray[1]>>, 2), calls[k])

\* f (4) and w (23) resolved to "Labial" by conPlaceArticulation
C2_Witness ==
  /\ pc = "done"
  /\ Input = <<4, 23>>
  /\ consonantVowel = 0
  /\ calls[1].exit = "printed"
  /\ calls[1].label = "Labial"

\* ------------------------------------------------------------------------
\* C3: a single valid code resolves in every dimension of its class, to the
\* primary label of the chart of section 4.1 of the specification.
\* ------------------------------------------------------------------------
\* the chart writes its labels without blanks
ChartName(label) == IF label = "Simple Vowel" THEN "SimpleVowel" ELSE label

ChartPrimary(fn, c) ==
  CASE fn = "conPlaceArticulation" ->
         (CASE c \in {1, 2, 3, 4, 5, 23} -> "Labial"
            [] c \in {6, 7} -> "Dental"
            [] c \in {8, 9, 10, 11, 12, 13, 14} -> "Alveolar"
            [] c \in {15, 16, 17, 18} -> "Alveopalatal"
            [] c = 19 -> "Palatal"
            [] c \in {20, 21, 22} -> "Velar"
            [] c \in {24, 25} -> "Glottal")
    [] fn = "conMannerArticulation" ->
         (CASE c \in {1, 2, 8, 9, 20, 21, 24} -> "Stop"
            [] c \in {3, 10, 22} -> "Nasal"
            [] c \in {4, 5, 6, 7, 11, 12, 15, 16, 25} -> "Fricative"
            [] c \in {17, 18} -> "Affricate"
            [] c \in {13, 14} -> "Liquid"
            [] c \in {19, 23} -> "Glide")
    [] fn = "conVoicing" ->
         (CASE c \in {1, 4, 6, 8, 11, 15, 17, 20, 24, 25} -> "Voiceless"
            [] c \in {2, 3, 5, 7, 9, 10, 12, 13, 14, 16, 18, 19, 21, 22, 23}
                 -> "Voiced")
    [] fn = "vowHeight" ->
         (CASE c \in 1..4 -> "High"
            [] c \in 5..11 -> "Mid"
            [] c \in 12..15 -> "Low")
    [] fn = "vowBackness" ->
         (CASE c \in {1, 2, 5, 6, 12} -> "Front"
            [] c \in {7, 8, 13, 14} -> "Central"
            [] c \in {3, 4, 9, 10, 11, 15} -> "Back")
    [] fn = "vowTenseness" ->
         (CASE c \in {1, 3, 5, 9, 10, 13, 14, 15} -> "Tensed"
            [] c \in {2, 4, 6, 7, 8, 11, 12} -> "Laxed")
    [] fn = "vowRoundedness" ->
         (CASE c \in {3, 4, 9, 10, 11} -> "Rounded"
            [] c \in {1, 2, 5, 6, 7, 8, 12, 13, 14, 15} -> "Unrounded")
    [] fn = "vowDiphthong" ->
         (CASE c \in {1, 2, 3, 4, 6, 7, 8, 11, 12, 15} -> "SimpleVowel"
            [] c \in {10, 13, 14} -> "Diphthong"
            [] c \in {5, 9} -> "Diphthong")

C3_SingleCodeIsPrimary ==
  \A k \in DoneCalls :
    (num = 1 /\ AllValid(calls[k].fn, Input))
    => /\ Resolved(calls[k])
       /\ ChartName(calls[k].label) = ChartPrimary(calls[k].fn, intArray[1])

\* w (23) alone: all three consonant reducers have printed
C3_Witness ==
  /\ pc = "done"
  /\ Input = <<23>>
  /\ consonantVowel = 0
  /\ Len(calls) = 3
  /\ \A k \in 1..3 : calls[k].exit = "printed"
  /\ calls[2].label = "Glide"


\* ------------------------------------------------------------------------
\* C4: when a non-empty input holds a code outside the class range, at any
\* position, no reducer of the class resolves and no result line is printed.
\* ------------------------------------------------------------------------
ResultLines == {n \in DOMAIN stdout : stdout[n][1] \in {Prefix(fn) : fn \in AllFns}}

C4_OutOfRangeNeverResolves ==
  \A k \in DoneCalls :
    (\E j \in 1..num : intArray[j] \notin ClassRange(calls[k].fn))
    => /\ ~Resolved(calls[k])
       /\ ResultLines = {}

\* vowels 1 and 4, then code 17: all five vowel reducers returned silently, the
\* first four in the table's else and none in the comparison
C4_Witness ==
  /\ pc = "done"
  /\ Input = <<1, 4, 17>>
  /\ consonantVowel = 1
  /\ Len(calls) = 5
  /\ calls[1].exit = "outOfRange"
  /\ calls[3].exit = "noMatch"
  /\ stdout = <<<<"========END========", "">>>>

\* ------------------------------------------------------------------------
\* C5: selector 0 runs exactly place, manner, voicing and selector 1 exactly
\* height, backness, tenseness, roundedness, diphthong, over the same input;
\* each call's outcome is that of its reducer run alone, whatever the other
\* dimensions did, and each resolved dimension has its line on the output.
\* ------------------------------------------------------------------------
ClassFns == IF consonantVowel = 0 THEN ConsonantFns ELSE VowelFns

RECURSIVE ExpectedLines(_, _)
ExpectedLines(fns, k) ==
  IF k > Len(fns) THEN <<>>
  ELSE LET r == Reduce(fns[k], intArray, num) IN
       (IF Resolved(r) THEN <<<<Prefix(fns[k]), r.label>>>> ELSE <<>>)
       \o ExpectedLines(fns, k + 1)

C5_DimensionsIndependent ==
  (pc \in {"printEnd", "done"} /\ consonantVowel \in {0, 1})
  => /\ Len(calls) = Len(ClassFns)
     /\ \A k \in DOMAIN calls :
          /\ calls[k].fn = ClassFns[k]
          /\ calls[k].exit = Reduce(ClassFns[k], intArray, num).exit
          /\ calls[k].label = Reduce(ClassFns[k], intArray, num).label
     /\ pc = "done"
        => stdout = ExpectedLines(ClassFns, 1) \o <<<<"========END========", "">>>>

\* p (1) and b (2): place Labial, manner Stop, voicing without common value
C5_Witness ==
  /\ pc = "done"
  /\ Input = <<1, 2>>
  /\ consonantVowel = 0
  /\ calls = << [fn |-> "conPlaceArticulation", exit |-> "printed", label |-> "Labial"],
                [fn |-> "conMannerArticulation", exit |-> "printed", label |-> "Stop"],
                [fn |-> "conVoicing", exit |-> "noMatch", label |-> ""] >>

\* ------------------------------------------------------------------------
\* C6: a selector other than 0 and 1 gives the invalid-selection message and
\* nothing else: no reducer is run, whatever the input.
\* ------------------------------------------------------------------------
C6_InvalidSelector ==
  (consonantVowel \notin {-1, 0, 1})
  => /\ calls = <<>>
     /\ pc \in {"invalid", "done"}
     /\ pc = "done" => stdout = <<<<"Invalid Input", "">>>>

C6_Witness ==
  /\ pc = "done"
  /\ consonantVowel = 2
  /\ Input = <<1, 2>>
  /\ stdout = <<<<"Invalid Input", "">>>>

\* ------------------------------------------------------------------------
\* C7: vowDiphthong never prints a subtype: on a non-empty input a printed
\* label is "Simple Vowel" or "Diphthong", and two codes of one subtype give
\* "Diphthong".
\* ------------------------------------------------------------------------
C7_NoSubtypeSurfaces ==
  \A k \in DOMAIN calls :
    (calls[k].fn = "vowDiphthong")
    => /\ calls[k].label \notin {"Major Diphthong", "Minor Diphthong"}
       /\ (num >= 1 /\ Resolved(calls[k]))
          => calls[k].label \in {"Simple Vowel", "Diphthong"}
       /\ (/\ num = 2
           /\ vowDiphthongTable(intArray[1]).s # ""
           /\ vowDiphthongTable(intArray[1]).s = vowDiphthongTable(intArray[2]).s)
          => (Resolved(calls[k]) /\ calls[k].label = "Diphthong")

\* e (5) and o (9), both minor diphthongs
C7_Witness ==
  /\ pc = "done"
  /\ Input = <<5, 9>>
  /\ consonantVowel = 1
  /\ calls[5] = [fn |-> "vowDiphthong", exit |-> "printed", label |-> "Diphthong"]

\* ------------------------------------------------------------------------
\* C8: every access to intArray, by main's stores and the reducers' reads,
\* is at an index 0..6.
\* ------------------------------------------------------------------------
C8_AccessWithinArray == maxIndex < ArrayLen

\* ------------------------------------------------------------------------
\* C9: a two-level reducer gives, on every non-empty input, the outcome of
\* the generic algorithm of section 4.2 of the specification over the same
\* table: rules 3a to 3e in order, a rule whose test fails falling through
\* to the next one.
\* ------------------------------------------------------------------------
\* the FeatureValue of the specification: the secondary is optional
SpecValue(f) == [p |-> f.p, s |-> IF f.s = "" THEN <<>> ELSE <<f.s>>]

SpecStep(cur, v) ==
  IF v.p = cur.p THEN [ok |-> TRUE, p |-> cur.p]
  ELSE IF cur.s # <<>> /\ v.s # <<>> /\ cur.s = v.s THEN [ok |-> TRUE, p |-> cur.s[1]]
  ELSE IF cur.s # <<>> /\ cur.s[1] = v.p THEN [ok |-> TRUE, p |-> v.p]
  ELSE IF v.s # <<>> /\ v.s[1] = cur.p THEN [ok |-> TRUE, p |-> v.s[1]]
  ELSE [ok |-> FALSE, p |-> ""]

RECURSIVE SpecFold(_, _, _)
SpecFold(values, k, cur) ==
  IF k > Len(values) THEN [exit |-> "printed", label |-> cur.p]
  ELSE LET n == SpecStep(cur, values[k]) IN
       IF ~n.ok THEN [exit |-> "noMatch", label |-> ""]
       ELSE SpecFold(values, k + 1, [p |-> n.p, s |-> <<>>])

SpecReduce(fn, seq) ==
  IF \E j \in 1..Len(seq) : ~Table(fn, seq[j]).ok
  THEN [exit |-> "outOfRange", label |-> ""]
  ELSE LET values == [j \in 1..Len(seq) |-> SpecValue(Table(fn, seq[j]))]
       IN SpecFold(values, 2, values[1])

C9_CodeMatchesGenericReducer ==
  \A k \in DoneCalls :
    (calls[k].fn \in TwoLevelFns)
    => SameOutcome(calls[k], SpecReduce(calls[k].fn, Input))

\* m (3), p (1), n (10): the manner reducer passes through rules 3c and 3d
C9_Witness ==
  /\ pc = "done"
  /\ Input = <<3, 1, 10>>
  /\ consonantVowel = 0
  /\ calls[2] = [fn |-> "conMannerArticulation", exit |-> "printed", label |-> "Stop"]
  /\ SpecReduce("conMannerArticulation", Input).label = "Stop"

\* ------------------------------------------------------------------------
\* C10: a label printed for a non-empty input is a primary or secondary
\* label of every code of the input, and every code is valid.
\* ------------------------------------------------------------------------
C10_ResolvedLabelIsShared ==
  \A k \in DoneCalls :
    Resolved(calls[k])
    => \A j \in 1..num :
         /\ intArray[j] \in ClassRange(calls[k].fn)
         /\ Table(calls[k].fn, intArray[j]).ok
         /\ calls[k].label # ""
         /\ calls[k].label \in {Table(calls[k].fn, intArray[j]).p,
                                Table(calls[k].fn, intArray[j]).s}

\* w (23), k (20), w (23): place resolves to Velar, w's secondary label
C10_Witness ==
  /\ pc = "done"
  /\ Input = <<23, 20, 23>>
  /\ consonantVowel = 0
  /\ calls[1] = [fn |-> "conPlaceArticulation", exit |-> "printed", label |-> "Velar"]

\* ------------------------------------------------------------------------
\* C11: with num = 0 and selector 0 or 1, every reducer of the class leaves
\* through its printf with the empty string as label; none returns in the
\* table's else or in the comparison, and every dimension has its line.
\* ------------------------------------------------------------------------
RECURSIVE EmptyLines(_, _)
EmptyLines(fns, k) ==
  IF k > Len(fns) THEN <<>>
  ELSE <<<<Prefix(fns[k]), "">>>> \o EmptyLines(fns, k + 1)

C11_EmptyInputPrintsEmptyLabels ==
  (num = 0 /\ consonantVowel \in {0, 1})
  => /\ \A k \in DOMAIN calls :
          /\ calls[k].exit = "printed"
          /\ calls[k].exit \notin {"noMatch", "outOfRange"}
          /\ calls[k].label = ""
     /\ pc \in {"printEnd", "done"}
        => /\ Len(calls) = Len(ClassFns)
           /\ \A k \in DOMAIN calls : calls[k].fn = ClassFns[k]
     /\ pc = "done"
        => stdout = EmptyLines(ClassFns, 1) \o <<<<"========END========", "">>>>

\* no code entered, vowels selected: five lines with an empty label
C11_Witness ==
  /\ pc = "done"
  /\ num = 0
  /\ intArray = <<>>
  /\ consonantVowel = 1
  /\ Len(calls) = 5
  /\ \A k \in 1..5 : calls[k].exit = "printed" /\ calls[k].label = ""
  /\ Len(stdout) = 6

====
